---- MODULE Spec2Model ----
(***************************************************************************)
(* Model of the Concordium V1 "donation" smart contract                    *)
(* (src/donation/src/lib.rs).                                              *)
(*                                                                         *)
(* The contract state is the State struct; the host contributes the        *)
(* instance balance, the slot time, the sender and owner addresses, the    *)
(* raw parameter bytes and the outcome of invoke_transfer.  Every receive  *)
(* function is one action.  An invocation that returns Err is rolled back  *)
(* by the host: neither its state writes, nor its transfers, nor the       *)
(* amount attached to it survive.                                          *)
(*                                                                         *)
(* The variables call, pre, result and transfers record the last           *)
(* invocation (its context, the state before it, what it returned and the  *)
(* transfers it issued) so that per-invocation contracts are state         *)
(* predicates.                                                             *)
(***************************************************************************)
EXTENDS Integers, Sequences, FiniteSets, TLC

VARIABLES
    number_of_donors,   \* State.number_of_donors
    state_of_donation,  \* State.state_of_donation
    donation_locations, \* State.donation_locations
    end_time,           \* State.end_time
    self_balance,       \* host.self_balance(): CCD held by the instance
    slot_time,          \* ctx.metadata().slot_time() of the last invocation
    call,               \* the last invocation: entrypoint, sender, inputs
    pre,                \* state and balance right before the last invocation
    result,             \* what the last invocation returned
    transfers,          \* transfers issued by the last invocation
    swept,              \* total amount moved out by transfers so far
    donated             \* total amount attached to successful donations

vars == << number_of_donors, state_of_donation, donation_locations, end_time,
           self_balance, slot_time, call, pre, result, transfers, swept,
           donated >>

----------------------------------------------------------------------------
(* Bounds *)

MaxTime == 3        \* slot times range over 0..MaxTime
MaxEndTime == 2     \* end_time at creation ranges over 0..MaxEndTime
MaxAmount == 2      \* amount attached to one donate: 0..MaxAmount
MaxDonated == 3     \* cap on the total amount ever donated

----------------------------------------------------------------------------
(* Addresses *)

\* AccountAddress of the instance owner (ctx.owner()) and of another account.
OwnerAccount == "acc0"
OtherAccount == "acc1"

\* Address::Account / Address::Contract.  The contract address is given the
\* owner's identifier to keep the two variants apart by tag only.
AddressAccount(a) == [tag |-> "Account", id |-> a]
AddressContract(c) == [tag |-> "Contract", id |-> c]

Senders == { AddressAccount(OwnerAccount), AddressAccount(OtherAccount),
             AddressContract(OwnerAccount) }

\* Address::matches_account, mutated: the variant tag is ignored.
matches_account_anytag(sender, owner) == sender.id = owner

\* Address::matches_account, mutated: every account address matches.
matches_account_anyacc(sender, owner) == sender.tag = "Account"

\* Address::matches_account: true only for Address::Account(a) with a = owner.
matches_account(sender, owner) ==
    sender.tag = "Account" /\ sender.id = owner

----------------------------------------------------------------------------
(* Locations and parameters *)

\* A DonationLocation (String) is its sequence of UTF-8 bytes.
GE == << 71, 69 >>
CM == << 67, 77 >>
USA == << 85, 83, 65 >>

\* u32 little-endian length prefix followed by the bytes (String::serial).
to_bytes(s) == << Len(s) % 256, (Len(s) \div 256) % 256,
                  (Len(s) \div 65536) % 256, (Len(s) \div 16777216) % 256 >>
               \o s

\* The inputs here are ASCII or contain 0xFF, which no UTF-8 string contains.
from_utf8_ok(bs) == \A i \in 1..Len(bs) : bs[i] < 128

\* ctx.parameter_cursor().get::<String>(): read a u32 length, then that many
\* bytes, then check UTF-8.  Trailing bytes are not looked at.
get_String(p) ==
    IF Len(p) < 4
    THEN [ok |-> FALSE, val |-> << >>]
    ELSE LET n == p[1] + 256 * p[2] + 65536 * p[3] + 16777216 * p[4]
         IN  IF Len(p) < 4 + n
             THEN [ok |-> FALSE, val |-> << >>]
             ELSE LET s == SubSeq(p, 5, 4 + n)
                  IN  IF from_utf8_ok(s)
                      THEN [ok |-> TRUE, val |-> s]
                      ELSE [ok |-> FALSE, val |-> << >>]

\* Parameters a caller may send with donate: well-formed strings, an empty
\* one, a well-formed one with trailing bytes, and malformed ones.
Parameters ==
    { to_bytes(GE), to_bytes(CM), to_bytes(USA), to_bytes(<< >>),
      to_bytes(CM) \o << 7 >>,
      << >>,                        \* no length prefix
      << 2, 0, 0, 0, 67 >>,         \* fewer bytes than announced
      << 2, 0, 0, 0, 67, 255 >> }   \* not UTF-8

\* Allow-lists an instance may be created with.
LocationLists == { << GE, CM >>, << CM >>, << CM, GE, CM >>, << >> }

----------------------------------------------------------------------------
(* Results *)

\* i32::MIN
MinI32 == -2147483647 - 1

Ok == [ok |-> TRUE, code |-> 0]
Err(c) == [ok |-> FALSE, code |-> c]

\* #[derive(Reject)] on enum Error: the variants get -1, -2, ... in order.
ParseParamsError == Err(-1)
DonationHasEnded == Err(-2)
\* Error::DonationClosed, mutated: it shares the code of DonationHasEnded.
DonationClosed_dup == Err(-2)

DonationClosed == Err(-3)
InvalidDonationLocation == Err(-4)

\* ensure!(cond) without an error argument returns Err(Default::default()),
\* and Reject::default() carries the error code i32::MIN.
EnsureFailed == Err(MinI32)

\* impl From<TransferError> for Reject.
TransferErrors == { "AmountTooLarge", "MissingAccount" }
TransferReject(e) ==
    IF e = "AmountTooLarge" THEN Err(MinI32 + 13) ELSE Err(MinI32 + 14)

----------------------------------------------------------------------------
(* Contract state *)

Open == "Open"
Closed == "Closed"

\* The State struct as one value.
State == [ number_of_donors |-> number_of_donors,
           state_of_donation |-> state_of_donation,
           donation_locations |-> donation_locations,
           end_time |-> end_time ]

\* init: the state built from an InitParameter.
init(param) == [ number_of_donors |-> 0,
                 state_of_donation |-> Open,
                 donation_locations |-> param.donation_locations,
                 end_time |-> param.end_time ]

----------------------------------------------------------------------------
(* donate *)

\* iter().position(..): index of the first equal element, 0 for None.
position(locs, loc) ==
    IF \E i \in 1..Len(locs) : locs[i] = loc
    THEN CHOOSE i \in 1..Len(locs) :
            /\ locs[i] = loc
            /\ \A j \in 1..(i - 1) : locs[j] # loc
    ELSE 0

\* donate, mutated: the deadline itself is already too late.
donate_strict(st, t, p) ==
    IF ~(st.end_time > t) THEN DonationHasEnded
    ELSE IF st.state_of_donation = Closed THEN DonationClosed
    ELSE IF ~get_String(p).ok THEN ParseParamsError
    ELSE IF position(st.donation_locations, get_String(p).val) = 0
         THEN InvalidDonationLocation
    ELSE Ok

\* donate, mutated: the allow-list is not consulted.
donate_anyloc(st, t, p) ==
    IF st.end_time < t THEN DonationHasEnded
    ELSE IF st.state_of_donation = Closed THEN DonationClosed
    ELSE IF ~get_String(p).ok THEN ParseParamsError
    ELSE Ok

\* donate, mutated: the phase is checked before the deadline.
donate_phasefirst(st, t, p) ==
    IF st.state_of_donation = Closed THEN DonationClosed
    ELSE IF st.end_time < t THEN DonationHasEnded
    ELSE IF ~get_String(p).ok THEN ParseParamsError
    ELSE IF position(st.donation_locations, get_String(p).val) = 0
         THEN InvalidDonationLocation
    ELSE Ok

\* donate, mutated: the parameter is parsed before the phase is checked.
donate_parsefirst(st, t, p) ==
    IF st.end_time < t THEN DonationHasEnded
    ELSE IF ~get_String(p).ok THEN ParseParamsError
    ELSE IF st.state_of_donation = Closed THEN DonationClosed
    ELSE IF position(st.donation_locations, get_String(p).val) = 0
         THEN InvalidDonationLocation
    ELSE Ok

\* donate, mutated: the phase is not checked.
donate_nophase(st, t, p) ==
    IF st.end_time < t THEN DonationHasEnded
    ELSE IF ~get_String(p).ok THEN ParseParamsError
    ELSE IF position(st.donation_locations, get_String(p).val) = 0
         THEN InvalidDonationLocation
    ELSE Ok

\* donate: the checks in source order; the first failing one is returned.
\* The function writes no field of the state.
donate(st, t, p) ==
    IF st.end_time < t THEN DonationHasEnded
    ELSE IF st.state_of_donation = Closed THEN DonationClosed
    ELSE IF ~get_String(p).ok THEN ParseParamsError
    ELSE IF position(st.donation_locations, get_String(p).val) = 0
         THEN InvalidDonationLocation
    ELSE Ok

\* The state donate leaves, mutated: a donation is counted.
donate_state_counting(st) ==
    [st EXCEPT !.number_of_donors = st.number_of_donors + 1]

\* The state donate leaves behind: the location index it computes is
\* dropped and no field is written, number_of_donors included.
donate_state(st) == st

----------------------------------------------------------------------------
(* close and open *)

\* What a receive function hands back to the host: its result, the state it
\* wrote, the balance left and the transfers it issued.
Outcome(r, st, bal, trs) ==
    [ result |-> r, state |-> st, balance |-> bal, transfers |-> trs ]

\* close, mutated: the phase is not written.
close_nophase(st, sender, owner, bal, xfer) ==
    IF ~matches_account(sender, owner) THEN Outcome(EnsureFailed, st, bal, << >>)
    ELSE IF ~(st.state_of_donation = Open)
         THEN Outcome(EnsureFailed, st, bal, << >>)
    ELSE IF xfer \in TransferErrors
         THEN Outcome(TransferReject(xfer), st, bal, << >>)
    ELSE Outcome(Ok, st, 0, << [to |-> owner, amount |-> bal] >>)

\* close, mutated: the phase guard is missing.
close_nophaseguard(st, sender, owner, bal, xfer) ==
    LET st2 == [st EXCEPT !.state_of_donation = Closed]
    IN  IF ~matches_account(sender, owner)
        THEN Outcome(EnsureFailed, st, bal, << >>)
        ELSE IF xfer \in TransferErrors
             THEN Outcome(TransferReject(xfer), st2, bal, << >>)
        ELSE Outcome(Ok, st2, 0, << [to |-> owner, amount |-> bal] >>)

\* close, mutated: the result of invoke_transfer is dropped.
close_ignorexfer(st, sender, owner, bal, xfer) ==
    LET st2 == [st EXCEPT !.state_of_donation = Closed]
    IN  IF ~matches_account(sender, owner)
        THEN Outcome(EnsureFailed, st, bal, << >>)
        ELSE IF ~(st.state_of_donation = Open)
             THEN Outcome(EnsureFailed, st, bal, << >>)
        ELSE IF xfer \in TransferErrors
             THEN Outcome(Ok, st2, bal, << >>)
        ELSE Outcome(Ok, st2, 0, << [to |-> owner, amount |-> bal] >>)

\* close, mutated: closing also empties the allow-list.
close_clearlocs(st, sender, owner, bal, xfer) ==
    LET st2 == [st EXCEPT !.state_of_donation = Closed,
                          !.donation_locations = << >>]
    IN  IF ~matches_account(sender, owner)
        THEN Outcome(EnsureFailed, st, bal, << >>)
        ELSE IF ~(st.state_of_donation = Open)
             THEN Outcome(EnsureFailed, st, bal, << >>)
        ELSE IF xfer \in TransferErrors
             THEN Outcome(TransferReject(xfer), st2, bal, << >>)
        ELSE Outcome(Ok, st2, 0, << [to |-> owner, amount |-> bal] >>)

\* close, mutated: closing is refused when there is nothing to sweep.
close_nonempty(st, sender, owner, bal, xfer) ==
    LET st2 == [st EXCEPT !.state_of_donation = Closed]
    IN  IF ~matches_account(sender, owner)
        THEN Outcome(EnsureFailed, st, bal, << >>)
        ELSE IF ~(st.state_of_donation = Open)
             THEN Outcome(EnsureFailed, st, bal, << >>)
        ELSE IF ~(bal > 0)
             THEN Outcome(EnsureFailed, st, bal, << >>)
        ELSE IF xfer \in TransferErrors
             THEN Outcome(TransferReject(xfer), st2, bal, << >>)
        ELSE Outcome(Ok, st2, 0, << [to |-> owner, amount |-> bal] >>)

\* close, mutated: the transfer is issued but the balance is not debited.
close_nodebit(st, sender, owner, bal, xfer) ==
    LET st2 == [st EXCEPT !.state_of_donation = Closed]
    IN  IF ~matches_account(sender, owner)
        THEN Outcome(EnsureFailed, st, bal, << >>)
        ELSE IF ~(st.state_of_donation = Open)
             THEN Outcome(EnsureFailed, st, bal, << >>)
        ELSE IF xfer \in TransferErrors
             THEN Outcome(TransferReject(xfer), st2, bal, << >>)
        ELSE Outcome(Ok, st2, bal, << [to |-> owner, amount |-> bal] >>)

\* close: two ensure! guards, the phase write, then the whole balance is
\* sent to the owner; a TransferError becomes the function's Err.
close(st, sender, owner, bal, xfer) ==
    LET st2 == [st EXCEPT !.state_of_donation = Closed]
    IN  IF ~matches_account(sender, owner)
        THEN Outcome(EnsureFailed, st, bal, << >>)
        ELSE IF ~(st.state_of_donation = Open)
             THEN Outcome(EnsureFailed, st, bal, << >>)
        ELSE IF xfer \in TransferErrors
             THEN Outcome(TransferReject(xfer), st2, bal, << >>)
        ELSE Outcome(Ok, st2, bal - bal,
                     << [to |-> owner, amount |-> bal] >>)

\* open, mutated: re-opening also clears the deadline.
open_reset(st, sender, owner, bal) ==
    IF ~matches_account(sender, owner) THEN Outcome(EnsureFailed, st, bal, << >>)
    ELSE IF ~(st.state_of_donation = Closed)
         THEN Outcome(EnsureFailed, st, bal, << >>)
    ELSE Outcome(Ok, [st EXCEPT !.state_of_donation = Open,
                                !.end_time = 0], bal, << >>)

\* open, mutated: the phase guard is missing.
open_nophaseguard(st, sender, owner, bal) ==
    IF ~matches_account(sender, owner) THEN Outcome(EnsureFailed, st, bal, << >>)
    ELSE Outcome(Ok, [st EXCEPT !.state_of_donation = Open], bal, << >>)

\* open, mutated: re-opening sends the balance to the owner as close does.
open_sweep(st, sender, owner, bal) ==
    IF ~matches_account(sender, owner) THEN Outcome(EnsureFailed, st, bal, << >>)
    ELSE IF ~(st.state_of_donation = Closed)
         THEN Outcome(EnsureFailed, st, bal, << >>)
    ELSE Outcome(Ok, [st EXCEPT !.state_of_donation = Open], 0,
                 << [to |-> owner, amount |-> bal] >>)

\* open: two ensure! guards, then the phase write.  No transfer.
open(st, sender, owner, bal) ==
    IF ~matches_account(sender, owner) THEN Outcome(EnsureFailed, st, bal, << >>)
    ELSE IF ~(st.state_of_donation = Closed)
         THEN Outcome(EnsureFailed, st, bal, << >>)
    ELSE Outcome(Ok, [st EXCEPT !.state_of_donation = Open], bal, << >>)

----------------------------------------------------------------------------
(* view *)

\* view, mutated: the balance field is left at zero.
view_nobalance(st, bal) == [ number_donors |-> st.number_of_donors,
                             state_donation |-> st.state_of_donation,
                             time |-> st.end_time,
                             balance |-> 0 ]

\* view: the DonationView built from the state and the balance.
view(st, bal) == [ number_donors |-> st.number_of_donors,
                   state_donation |-> st.state_of_donation,
                   time |-> st.end_time,
                   balance |-> bal ]

----------------------------------------------------------------------------
(* Host *)

\* The snapshot taken before an invocation.
Snapshot == [ state |-> State, balance |-> self_balance ]

\* The host's commit, mutated: a failed invocation keeps its balance change.
Commit_keepbalance(out) ==
    /\ result' = out.result
    /\ pre' = Snapshot
    /\ self_balance' = out.balance
    /\ IF out.result.ok
       THEN /\ number_of_donors' = out.state.number_of_donors
            /\ state_of_donation' = out.state.state_of_donation
            /\ donation_locations' = out.state.donation_locations
            /\ end_time' = out.state.end_time
            /\ transfers' = out.transfers
       ELSE /\ UNCHANGED << number_of_donors, state_of_donation,
                            donation_locations, end_time >>
            /\ transfers' = << >>

\* A V1 invocation commits all-or-nothing: the writes, balance change and
\* transfers of an invocation are kept only when it returns Ok.
Commit(out) ==
    /\ result' = out.result
    /\ pre' = Snapshot
    /\ IF out.result.ok
       THEN /\ number_of_donors' = out.state.number_of_donors
            /\ state_of_donation' = out.state.state_of_donation
            /\ donation_locations' = out.state.donation_locations
            /\ end_time' = out.state.end_time
            /\ self_balance' = out.balance
            /\ transfers' = out.transfers
       ELSE /\ UNCHANGED << number_of_donors, state_of_donation,
                            donation_locations, end_time, self_balance >>
            /\ transfers' = << >>

\* Sum of the amounts of a sequence of transfers.
RECURSIVE TransferSum(_)
TransferSum(trs) ==
    IF trs = << >> THEN 0 ELSE Head(trs).amount + TransferSum(Tail(trs))

NoView == [ number_donors |-> 0, state_donation |-> Open, time |-> 0,
            balance |-> 0 ]

\* An invocation record.
Call(op, sender, p, amount, xfer, ret) ==
    [ op |-> op, sender |-> sender, parameter |-> p, amount |-> amount,
      xfer |-> xfer, ret |-> ret ]

----------------------------------------------------------------------------
(* Specification *)

\* Instance creation: init is not payable, so the instance starts with a
\* zero balance.
Init ==
    \E locs \in LocationLists, et \in 0..MaxEndTime :
        LET st == init([donation_locations |-> locs, end_time |-> et])
        IN  /\ number_of_donors = st.number_of_donors
            /\ state_of_donation = st.state_of_donation
            /\ donation_locations = st.donation_locations
            /\ end_time = st.end_time
            /\ self_balance = 0
            /\ slot_time = 0
            /\ call = Call("init", AddressAccount(OwnerAccount), << >>, 0,
                           "Ok", NoView)
            /\ pre = [ state |-> st, balance |-> 0 ]
            /\ result = Ok
            /\ transfers = << >>
            /\ swept = 0
            /\ donated = 0

\* donate is payable: the host credits the attached amount before the
\* function runs and the credit survives only if the function returns Ok.
Donate ==
    \E sender \in Senders, t \in slot_time..MaxTime, p \in Parameters,
       amount \in 0..MaxAmount :
        LET r == donate(State, t, p)
        IN  /\ donated + amount <= MaxDonated
            /\ slot_time' = t
            /\ call' = Call("donate", sender, p, amount, "Ok", NoView)
            /\ Commit(Outcome(r, donate_state(State), self_balance + amount,
                              << >>))
            /\ donated' = IF r.ok THEN donated + amount ELSE donated
            /\ UNCHANGED swept

Close ==
    \E sender \in Senders, t \in slot_time..MaxTime,
       xfer \in {"Ok"} \cup TransferErrors :
        LET out == close(State, sender, OwnerAccount, self_balance, xfer)
        IN  /\ slot_time' = t
            /\ call' = Call("close", sender, << >>, 0, xfer, NoView)
            /\ Commit(out)
            /\ swept' = IF out.result.ok
                        THEN swept + TransferSum(out.transfers) ELSE swept
            /\ UNCHANGED donated

OpenAction ==
    \E sender \in Senders, t \in slot_time..MaxTime :
        LET out == open(State, sender, OwnerAccount, self_balance)
        IN  /\ slot_time' = t
            /\ call' = Call("open", sender, << >>, 0, "Ok", NoView)
            /\ Commit(out)
            /\ UNCHANGED << swept, donated >>

\* view takes the host immutably: it can only return a value.
View ==
    \E sender \in Senders, t \in slot_time..MaxTime :
        /\ slot_time' = t
        /\ call' = Call("view", sender, << >>, 0, "Ok",
                        view(State, self_balance))
        /\ Commit(Outcome(Ok, State, self_balance, << >>))
        /\ UNCHANGED << swept, donated >>

Next == Donate \/ Close \/ OpenAction \/ View

Spec == Init /\ [][Next]_vars

----------------------------------------------------------------------------
(* Vocabulary of the properties *)

Owner == AddressAccount(OwnerAccount)

\* The state fields are what they were before the last invocation.
StateUnchanged == State = pre.state

\* The last donate carried a parameter that parses to loc.
Parsed(loc) == get_String(call.parameter) = [ok |-> TRUE, val |-> loc]

\* The last donate carried a well-formed parameter.
ParamParses == \E loc \in {GE, CM, USA, << >>} : Parsed(loc)

\* The last donate named a location of the allow-list it ran against.
LocationAllowed ==
    \E i \in 1..Len(pre.state.donation_locations) :
        Parsed(pre.state.donation_locations[i])

----------------------------------------------------------------------------
(* close by the owner *)

\* C1: a close by the owner on an Open campaign whose transfer succeeds
\* returns Ok, leaves the phase Closed, issues exactly one transfer, to the
\* owner, of the whole balance held before the call, and leaves balance 0.
C1_CloseSweepsToOwner ==
    ( /\ call.op = "close"
      /\ call.sender = Owner
      /\ pre.state.state_of_donation = Open
      /\ call.xfer = "Ok" )
    => /\ result = Ok
       /\ state_of_donation = Closed
       /\ transfers = << [to |-> OwnerAccount, amount |-> pre.balance] >>
       /\ self_balance = 0

C1_Witness ==
    /\ call.op = "close"
    /\ call.sender = Owner
    /\ pre.state.state_of_donation = Open
    /\ call.xfer = "Ok"
    /\ pre.balance > 0
    /\ result = Ok

\* C2: close and open by anyone but the owner account (another account or a
\* contract address) fail in either phase, change no state field and no
\* balance, and issue no transfer.
C2_NonOwnerRejected ==
    ( /\ call.op \in {"close", "open"}
      /\ call.sender # Owner )
    => /\ ~result.ok
       /\ StateUnchanged
       /\ self_balance = pre.balance
       /\ transfers = << >>

C2_Witness ==
    /\ call.op = "close"
    /\ call.sender = AddressContract(OwnerAccount)
    /\ pre.state.state_of_donation = Open
    /\ pre.balance > 0
    /\ ~result.ok

----------------------------------------------------------------------------
(* donate *)

\* C3: a donate naming an allowed location, at a time not after the
\* deadline (the deadline itself included), on an Open campaign, succeeds
\* whatever the attached amount and changes no state field.
C3_DonateAccepted ==
    ( /\ call.op = "donate"
      /\ LocationAllowed
      /\ slot_time <= pre.state.end_time
      /\ pre.state.state_of_donation = Open )
    => /\ result = Ok
       /\ state_of_donation = Open
       /\ StateUnchanged

C3_Witness ==
    /\ call.op = "donate"
    /\ LocationAllowed
    /\ slot_time = pre.state.end_time
    /\ pre.state.state_of_donation = Open
    /\ call.amount = 0
    /\ result = Ok

\* C4: a donate that reaches the location check (time not after the
\* deadline, phase Open, parameter parses) with a location outside the
\* allow-list fails with InvalidDonationLocation, whatever the amount.
C4_BadLocationRejected ==
    ( /\ call.op = "donate"
      /\ slot_time <= pre.state.end_time
      /\ pre.state.state_of_donation = Open
      /\ ParamParses
      /\ ~LocationAllowed )
    => result = InvalidDonationLocation

C4_Witness ==
    /\ call.op = "donate"
    /\ slot_time <= pre.state.end_time
    /\ pre.state.state_of_donation = Open
    /\ Parsed(USA)
    /\ pre.state.donation_locations # << >>
    /\ call.amount > 0
    /\ result = InvalidDonationLocation

\* C5: a donate at a time strictly after the deadline fails with
\* DonationHasEnded, whatever the location and whatever the phase.
C5_LateDonateRejected ==
    ( /\ call.op = "donate"
      /\ slot_time > pre.state.end_time )
    => result = DonationHasEnded

C5_Witness ==
    /\ call.op = "donate"
    /\ slot_time > pre.state.end_time
    /\ pre.state.state_of_donation = Closed
    /\ LocationAllowed
    /\ result = DonationHasEnded

----------------------------------------------------------------------------
(* close and open: failures and round trip *)

\* C6: when the transfer issued by close fails, the invocation fails and
\* nothing of it is observable: the phase is still Open and the balance is
\* the one held before the call.
C6_FailedTransferRollsBack ==
    ( /\ call.op = "close"
      /\ call.sender = Owner
      /\ pre.state.state_of_donation = Open
      /\ call.xfer \in TransferErrors )
    => /\ ~result.ok
       /\ state_of_donation = Open
       /\ StateUnchanged
       /\ self_balance = pre.balance

C6_Witness ==
    /\ call.op = "close"
    /\ call.sender = Owner
    /\ pre.state.state_of_donation = Open
    /\ call.xfer \in TransferErrors
    /\ pre.balance > 0
    /\ ~result.ok

\* C7: a close by the owner on a campaign that is already Closed fails; the
\* phase stays Closed, the balance is unchanged and no transfer is issued.
C7_CloseWhenClosedRejected ==
    ( /\ call.op = "close"
      /\ call.sender = Owner
      /\ pre.state.state_of_donation = Closed )
    => /\ ~result.ok
       /\ state_of_donation = Closed
       /\ self_balance = pre.balance
       /\ transfers = << >>

C7_Witness ==
    /\ call.op = "close"
    /\ call.sender = Owner
    /\ pre.state.state_of_donation = Closed
    /\ call.xfer = "Ok"
    /\ ~result.ok

\* C8: an open by the owner on a Closed campaign succeeds, sets the phase to
\* Open and issues no transfer (balance unchanged); an open on a campaign
\* that is already Open fails and the phase stays Open.
C8_OpenTogglesPhase ==
    /\ ( /\ call.op = "open"
         /\ call.sender = Owner
         /\ pre.state.state_of_donation = Closed )
       => /\ result = Ok
          /\ state_of_donation = Open
          /\ transfers = << >>
          /\ self_balance = pre.balance
    /\ ( /\ call.op = "open"
         /\ pre.state.state_of_donation = Open )
       => /\ ~result.ok
          /\ state_of_donation = Open

C8_Witness ==
    /\ call.op = "open"
    /\ call.sender = Owner
    /\ pre.state.state_of_donation = Closed
    /\ result = Ok
    /\ state_of_donation = Open

\* C9: a successful close by the owner on an Open campaign followed by a
\* successful open by the owner puts the phase back to Open and every other
\* state field back to its value before the close, while the balance stays
\* at the swept value, zero: it is not restored.
C9_CloseOpenRoundTrip ==
    [][ ( /\ call.op = "close"
          /\ call.sender = Owner
          /\ result = Ok
          /\ pre.state.state_of_donation = Open
          /\ call'.op = "open"
          /\ call'.sender = Owner
          /\ result' = Ok )
        => /\ state_of_donation' = Open
           /\ State' = pre.state
           /\ self_balance = 0
           /\ self_balance' = 0 ]_vars

C9_Witness ==
    /\ call.op = "open"
    /\ call.sender = Owner
    /\ result = Ok
    /\ state_of_donation = Open
    /\ swept > 0
    /\ self_balance = 0

----------------------------------------------------------------------------
(* Error kinds *)

\* Why the last invocation failed, in the callers' terms; "none" when it
\* succeeded or failed for another reason (malformed parameter, transfer).
Cause ==
    IF result.ok THEN "none"
    ELSE IF call.op = "donate" /\ slot_time > pre.state.end_time
         THEN "too late"
    ELSE IF call.op = "donate" /\ pre.state.state_of_donation = Closed
         THEN "already closed"
    ELSE IF call.op = "donate" /\ ParamParses /\ ~LocationAllowed
         THEN "bad location"
    ELSE IF call.op \in {"close", "open"} /\ call.sender # Owner
         THEN "not the owner"
    ELSE IF call.op = "close" /\ pre.state.state_of_donation = Closed
         THEN "wrong phase"
    ELSE IF call.op = "open" /\ pre.state.state_of_donation = Open
         THEN "wrong phase"
    ELSE "none"

----------------------------------------------------------------------------
(* Custody of the balance and of the creation parameters *)

\* C11: every transfer the contract issues is issued by a close and goes to
\* the owner; donate, open and view issue no transfer and never decrease
\* the balance held.
C11_TransfersOnlyFromCloseToOwner ==
    /\ transfers # << >>
       => /\ call.op = "close"
          /\ \A i \in 1..Len(transfers) : transfers[i].to = OwnerAccount
    /\ call.op \in {"donate", "open", "view"}
       => /\ transfers = << >>
          /\ self_balance >= pre.balance

C11_Witness ==
    /\ call.op = "close"
    /\ Len(transfers) = 1
    /\ transfers[1].to = OwnerAccount
    /\ transfers[1].amount > 0
    /\ slot_time > end_time

\* C12: no invocation, successful or failing, changes allowed_locations or
\* deadline: in every step both keep the value they had, which is the value
\* init stored from the creation parameter.
C12_CreationParametersImmutable ==
    [][ /\ donation_locations' = donation_locations
        /\ end_time' = end_time ]_vars

C12_Witness ==
    /\ call.op = "donate"
    /\ result = Ok
    /\ swept > 0
    /\ donation_locations = << CM, GE, CM >>
    /\ end_time = MaxEndTime

\* C13: view succeeds for any caller, in any phase and at any time, changes
\* no state field and no balance, and returns exactly the current
\* donor_count, phase, deadline and balance.
C13_ViewReadsCurrentState ==
    call.op = "view"
    => /\ result = Ok
       /\ StateUnchanged
       /\ self_balance = pre.balance
       /\ transfers = << >>
       /\ call.ret = [ number_donors |-> number_of_donors,
                       state_donation |-> state_of_donation,
                       time |-> end_time,
                       balance |-> self_balance ]

C13_Witness ==
    /\ call.op = "view"
    /\ call.sender = AddressContract(OwnerAccount)
    /\ self_balance > 0
    /\ end_time > 0
    /\ slot_time > end_time
    /\ call.ret.balance = self_balance

----------------------------------------------------------------------------
(* Order of checks, phase changes, failed donations *)

\* C14: donate reports the first failing check in the order deadline, phase,
\* parameter, allow-list: after the deadline it fails with DonationHasEnded
\* even when the phase is Closed and the location is not allowed; not after
\* the deadline on a Closed campaign it fails with DonationClosed even when
\* the parameter is malformed or the location is not allowed.
C14_FirstFailingCheckWins ==
    /\ ( /\ call.op = "donate"
         /\ slot_time > pre.state.end_time )
       => result = DonationHasEnded
    /\ ( /\ call.op = "donate"
         /\ slot_time <= pre.state.end_time
         /\ pre.state.state_of_donation = Closed )
       => result = DonationClosed
    /\ ( /\ call.op = "donate"
         /\ slot_time <= pre.state.end_time
         /\ pre.state.state_of_donation = Open
         /\ ~ParamParses )
       => result = ParseParamsError

C14_Witness ==
    /\ call.op = "donate"
    /\ slot_time <= pre.state.end_time
    /\ pre.state.state_of_donation = Closed
    /\ ~ParamParses
    /\ result = DonationClosed

\* C15: every step that changes the phase is a successful close by the
\* owner, from Open to Closed, or a successful open by the owner, from
\* Closed to Open; donate, view and invocations by others never change it.
C15_PhaseChangesOnlyByOwner ==
    [][ state_of_donation' # state_of_donation
        => /\ call'.sender = Owner
           /\ result' = Ok
           /\ \/ /\ call'.op = "close"
                 /\ state_of_donation = Open
                 /\ state_of_donation' = Closed
              \/ /\ call'.op = "open"
                 /\ state_of_donation = Closed
                 /\ state_of_donation' = Open ]_vars

C15_Witness ==
    /\ call.op = "close"
    /\ call.sender = Owner
    /\ result = Ok
    /\ pre.state.state_of_donation = Open
    /\ state_of_donation = Closed
    /\ donated = MaxDonated

----------------------------------------------------------------------------
(* Reachable states *)

\* A close by the owner at time t that is accepted and closes the campaign.
OwnerCloses(t) ==
    /\ Close
    /\ call'.sender = Owner
    /\ slot_time' = t
    /\ result' = Ok
    /\ state_of_donation' = Closed

\* An open by the owner at time t that is accepted and opens the campaign.
OwnerOpens(t) ==
    /\ OpenAction
    /\ call'.sender = Owner
    /\ slot_time' = t
    /\ result' = Ok
    /\ state_of_donation' = Open

\* C17: there is no terminal state: in every reachable state and at every
\* later time, before or after the deadline, an owner close is accepted
\* when the phase is Open and an owner open is accepted when it is Closed.
C17_NoTerminalState ==
    \A t \in slot_time..MaxTime :
        /\ state_of_donation = Open => ENABLED OwnerCloses(t)
        /\ state_of_donation = Closed => ENABLED OwnerOpens(t)

C17_Witness ==
    /\ call.op = "close"
    /\ call.sender = Owner
    /\ result = Ok
    /\ state_of_donation = Closed
    /\ pre.balance = 0
    /\ swept > 0
    /\ slot_time > end_time

\* C18: donor_count is 0 at creation and in every reachable state, also
\* after successful donations, and view reports 0.
C18_DonorCountStaysZero ==
    /\ number_of_donors = 0
    /\ call.op = "view" => call.ret.number_donors = 0

C18_Witness ==
    /\ call.op = "donate"
    /\ result = Ok
    /\ call.amount > 0
    /\ donated = MaxDonated
    /\ number_of_donors = 0

\* C19: whenever the phase is Closed the balance is zero: close sweeps the
\* whole balance and donate is rejected while Closed.
C19_ClosedMeansEmpty ==
    state_of_donation = Closed => self_balance = 0

C19_Witness ==
    /\ state_of_donation = Closed
    /\ self_balance = 0
    /\ swept > 0
    /\ call.op = "donate"
    /\ LocationAllowed
    /\ call.amount > 0
    /\ result = DonationClosed

\* C20: the balance held plus everything transferred to the owner by
\* successful closes equals the balance at creation, zero, plus everything
\* attached to successful donations; every transfer goes to the owner.
C20_Conservation ==
    /\ self_balance + swept = 0 + donated
    /\ \A i \in 1..Len(transfers) : transfers[i].to = OwnerAccount

C20_Witness ==
    /\ swept > 0
    /\ self_balance > 0
    /\ self_balance + swept = MaxDonated
    /\ call.op = "donate"
    /\ result = Ok

====
